---- MODULE Spec2Model ----
(***************************************************************************)
(* Model of gazelle/tsconfig/tsconfig.go: the per-package Config nodes,    *)
(* the Configs mapping with its parent lookup, the inheritance policy of   *)
(* NewChild, the ignore-dependency resolution along the parent chain, the  *)
(* shared exclusion list and the naming-convention rendering.              *)
(*                                                                         *)
(* Go strings that the code takes apart (dependency names, package paths,  *)
(* naming templates) are sequences of one-character strings.  Pointers are *)
(* positive integers; Nil is the nil pointer.                              *)
(***************************************************************************)
EXTENDS Integers, Sequences, FiniteSets, TLC

VARIABLES configs, lists, tree, result, validateSetOn

vars == <<configs, lists, tree, result, validateSetOn>>

\* ------------------------------------------------------------------ bounds
MaxNodes == 3
MaxSettingNodes == 2
MaxPatterns == 2

\* --------------------------------------------------------------- constants
Nil == 0
Void == <<"void">>

EnvironmentNode == "node"
EnvironmentBrowser == "browser"
EnvironmentOther == "other"

packageNameNamingConventionSubstitution ==
    <<"$", "p", "a", "c", "k", "a", "g", "e", "_", "n", "a", "m", "e", "$">>

TestSuffix == <<"_", "t", "e", "s", "t">>

\* ------------------------------------------------------------ input domains
RepoRoots == {"/ws"}

\* names with white space around them: vertical tab, no-break space (U+00A0),
\* next line (U+0085) and tab; the space inside "x y" stays
Deps == { <<"x">>, <<"", "x", " ">>,
          <<"", "x", " ", "y", "\t">> }

Patterns == {"*.d.ts", "dist/**"}

EnvironmentTypes == {EnvironmentNode, EnvironmentOther}

Packages == { <<>>, <<"a">>, <<"b">>, <<"a", "/", "b">> }

QueryPackages == Packages \cup { <<"b", "/", "c">>, <<"a", "/", "b", "/", "c">> }

LibraryTemplates ==
    { packageNameNamingConventionSubstitution \o <<"_", "l", "i", "b">>,
      <<"l", "i", "b">> }

TestTemplates ==
    { packageNameNamingConventionSubstitution \o <<"_">>
          \o packageNameNamingConventionSubstitution,
      <<"$">> \o packageNameNamingConventionSubstitution
          \o <<"p", "a", "c", "k", "a", "g", "e", "_", "n", "a", "m", "e", "$">> }

ScalarLibraryTemplates == { <<"l", "i", "b">> }

ScalarTestTemplates == { <<"s", "p", "e", "c">> }

PackageNames == { <<"f", "o", "o">>, <<"b", "a", "r">> }

\* ------------------------------------------------------------ strings
\* unicode.IsSpace: tab, newline, vertical tab, form feed, carriage return,
\* space, U+0085, U+00A0, and the white-space runes above Latin-1, which are
\* written by the name of their code point
IsSpace(ch) ==
    ch \in { "\t", "\n", "", "\f", "\r", " ", "", " ",
             "U+1680", "U+2000", "U+2001", "U+2002", "U+2003", "U+2004",
             "U+2005", "U+2006", "U+2007", "U+2008", "U+2009", "U+200A",
             "U+2028", "U+2029", "U+202F", "U+205F", "U+3000" }

RECURSIVE TrimLeft(_)
TrimLeft(s) ==
    IF s # <<>> /\ IsSpace(s[1]) THEN TrimLeft(Tail(s)) ELSE s

RECURSIVE TrimRight(_)
TrimRight(s) ==
    IF s # <<>> /\ IsSpace(s[Len(s)]) THEN TrimRight(SubSeq(s, 1, Len(s) - 1)) ELSE s

\* strings.TrimSpace: drop leading and trailing white space
TrimSpace(s) == TrimRight(TrimLeft(s))

\* strings.Index from position start (1-based); 0 when there is no match
IndexFrom(s, old, start) ==
    LET hits == {j \in start..(Len(s) - Len(old) + 1) :
                    SubSeq(s, j, j + Len(old) - 1) = old}
    IN  IF hits = {} THEN 0
        ELSE CHOOSE j \in hits : \A k \in hits : j <= k

RECURSIVE ReplaceFrom(_, _, _, _)
ReplaceFrom(s, old, new, start) ==
    LET j == IndexFrom(s, old, start)
    IN  IF j = 0 THEN SubSeq(s, start, Len(s))
        ELSE SubSeq(s, start, j - 1) \o new
                 \o ReplaceFrom(s, old, new, j + Len(old))

\* a replacement that stops after the first match
ReplaceFirst(s, old, new) ==
    LET j == IndexFrom(s, old, 1)
    IN  IF j = 0 THEN s
        ELSE SubSeq(s, 1, j - 1) \o new \o SubSeq(s, j + Len(old), Len(s))

\* strings.ReplaceAll with a non-empty old: leftmost non-overlapping matches
ReplaceAll(s, old, new) == ReplaceFrom(s, old, new, 1)

\* ------------------------------------------------------------ paths
RECURSIVE SplitPath(_)
SplitPath(s) ==
    LET j == IndexFrom(s, <<"/">>, 1)
    IN  IF j = 0 THEN <<s>>
        ELSE <<SubSeq(s, 1, j - 1)>> \o SplitPath(SubSeq(s, j + 1, Len(s)))

RECURSIVE CleanElems(_, _, _)
CleanElems(elems, out, rooted) ==
    IF elems = <<>> THEN out
    ELSE LET e == Head(elems)
             rest == Tail(elems)
         IN  IF e = <<>> \/ e = <<".">> THEN CleanElems(rest, out, rooted)
             ELSE IF e = <<".", ".">>
                  THEN IF out # <<>> /\ out[Len(out)] # <<".", ".">>
                       THEN CleanElems(rest, SubSeq(out, 1, Len(out) - 1), rooted)
                       ELSE IF rooted THEN CleanElems(rest, out, rooted)
                            ELSE CleanElems(rest, Append(out, e), rooted)
                  ELSE CleanElems(rest, Append(out, e), rooted)

RECURSIVE JoinPath(_)
JoinPath(elems) ==
    IF elems = <<>> THEN <<>>
    ELSE IF Len(elems) = 1 THEN elems[1]
         ELSE elems[1] \o <<"/">> \o JoinPath(Tail(elems))

\* filepath.Clean
Clean(path) ==
    IF path = <<>> THEN <<".">>
    ELSE LET rooted == path[1] = "/"
             body == JoinPath(CleanElems(SplitPath(path), <<>>, rooted))
         IN  IF rooted THEN <<"/">> \o body
             ELSE IF body = <<>> THEN <<".">> ELSE body

\* filepath.Dir: everything up to the last separator, cleaned
Dir(path) ==
    LET seps == {i \in 1..Len(path) : path[i] = "/"}
        i == IF seps = {} THEN 0 ELSE CHOOSE k \in seps : \A m \in seps : m <= k
    IN  Clean(SubSeq(path, 1, i))

\* ------------------------------------------------------------ state
Nodes == DOMAIN configs

\* a lookup that leaves the "." of a single-segment path as it is
ParentForPackageNoDot(c, pkg) ==
    LET dir == Dir(pkg)
    IN  IF dir \in DOMAIN c THEN c[dir] ELSE Nil

\* Configs.ParentForPackage
ParentForPackage(c, pkg) ==
    LET dir0 == Dir(pkg)
        dir == IF dir0 = <<".">> THEN <<>> ELSE dir0
    IN  IF dir \in DOMAIN c THEN c[dir] ELSE Nil

\* Config.Parent
Parent(c) == configs[c].parent

\* Config.ExcludedPatterns: the list object, and the sequence it holds
ExcludedPatterns(c) == lists[configs[c].excludedPatterns]

\* Config.GenerationEnabled
GenerationEnabled(c) == configs[c].generationEnabled

\* Config.ValidateImportStatements
ValidateImportStatements(c) == configs[c].validateImportStatements

\* a walk that stops at the direct parent
IgnoresInChainOneLevel(cfgs, parent, trimmedDep) ==
    parent # Nil /\ trimmedDep \in cfgs[parent].ignoreDependencies

\* Config.IgnoresDependency: the local set, then every parent up to the root
RECURSIVE IgnoresInChain(_, _, _)
IgnoresInChain(cfgs, parent, trimmedDep) ==
    IF parent = Nil THEN FALSE
    ELSE IF trimmedDep \in cfgs[parent].ignoreDependencies THEN TRUE
         ELSE IgnoresInChain(cfgs, cfgs[parent].parent, trimmedDep)

IgnoresDependencyIn(cfgs, c, dep) ==
    LET trimmedDep == TrimSpace(dep)
    IN  IF trimmedDep \in cfgs[c].ignoreDependencies THEN TRUE
        ELSE IgnoresInChain(cfgs, cfgs[c].parent, trimmedDep)

IgnoresDependency(c, dep) == IgnoresDependencyIn(configs, c, dep)

\* Config.RenderLibraryName / Config.RenderTestName
RenderLibraryNameIn(cfgs, c, packageName) ==
    ReplaceAll(cfgs[c].libraryNamingConvention,
               packageNameNamingConventionSubstitution, packageName)

RenderTestNameIn(cfgs, c, packageName) ==
    ReplaceAll(cfgs[c].testNamingConvention,
               packageNameNamingConventionSubstitution, packageName)

RenderLibraryName(c, packageName) == RenderLibraryNameIn(configs, c, packageName)

RenderTestName(c, packageName) == RenderTestNameIn(configs, c, packageName)

\* what the last call handed back: a value of some kind, or a panic
Returned(kind, v) == [kind |-> kind, val |-> v, err |-> FALSE]

Panicked == [kind |-> "void", val |-> Void, err |-> TRUE]

Init ==
    /\ configs = << >>
    /\ lists = << >>
    /\ tree = << >>
    /\ result = Returned("void", Void)
    /\ validateSetOn = {}

\* ------------------------------------------------------------ operations
\* the Config that New builds; its exclusion list is the fresh list l
NewConfig(repoRoot, l) ==
    [ parent |-> Nil,
      generationEnabled |-> TRUE,
      repoRoot |-> repoRoot,
      environmentType |-> EnvironmentOther,
      excludedPatterns |-> l,
      ignoreDependencies |-> {},
      validateImportStatements |-> TRUE,
      libraryNamingConvention |-> packageNameNamingConventionSubstitution,
      testNamingConvention |-> packageNameNamingConventionSubstitution \o TestSuffix ]

\* a child that starts from the default of validateImportStatements
ChildConfigDefaultValidate(cfgs, c) ==
    [ parent |-> c,
      generationEnabled |-> cfgs[c].generationEnabled,
      repoRoot |-> cfgs[c].repoRoot,
      environmentType |-> cfgs[c].environmentType,
      excludedPatterns |-> cfgs[c].excludedPatterns,
      ignoreDependencies |-> {},
      validateImportStatements |-> TRUE,
      libraryNamingConvention |-> cfgs[c].libraryNamingConvention,
      testNamingConvention |-> cfgs[c].testNamingConvention ]

\* a child that takes over the parent of the receiver
ChildConfigParentOfReceiver(cfgs, c) ==
    [ parent |-> cfgs[c].parent,
      generationEnabled |-> cfgs[c].generationEnabled,
      repoRoot |-> cfgs[c].repoRoot,
      environmentType |-> cfgs[c].environmentType,
      excludedPatterns |-> cfgs[c].excludedPatterns,
      ignoreDependencies |-> {},
      validateImportStatements |-> cfgs[c].validateImportStatements,
      libraryNamingConvention |-> cfgs[c].libraryNamingConvention,
      testNamingConvention |-> cfgs[c].testNamingConvention ]

\* the Config that c.NewChild() builds
ChildConfig(cfgs, c) ==
    [ parent |-> c,
      generationEnabled |-> cfgs[c].generationEnabled,
      repoRoot |-> cfgs[c].repoRoot,
      environmentType |-> cfgs[c].environmentType,
      excludedPatterns |-> cfgs[c].excludedPatterns,
      ignoreDependencies |-> {},
      validateImportStatements |-> cfgs[c].validateImportStatements,
      libraryNamingConvention |-> cfgs[c].libraryNamingConvention,
      testNamingConvention |-> cfgs[c].testNamingConvention ]

New(repoRoot, bound) ==
    /\ Cardinality(Nodes) < bound
    /\ LET n == Cardinality(Nodes) + 1
           l == Cardinality(DOMAIN lists) + 1
       IN  /\ lists' = Append(lists, <<>>)
           /\ configs' = Append(configs, NewConfig(repoRoot, l))
           /\ result' = Returned("node", n)
    /\ UNCHANGED tree

\* a derivation that copies the exclusion list into a list of its own
NewChildCopiesList(c, bound) ==
    /\ Cardinality(Nodes) < bound
    /\ lists' = Append(lists, ExcludedPatterns(c))
    /\ configs' = Append(configs, [ChildConfig(configs, c) EXCEPT
                                      !.excludedPatterns = Cardinality(DOMAIN lists) + 1])
    /\ result' = Returned("node", Cardinality(Nodes) + 1)
    /\ UNCHANGED tree

NewChild(c, bound) ==
    /\ Cardinality(Nodes) < bound
    /\ configs' = Append(configs, ChildConfig(configs, c))
    /\ result' = Returned("node", Cardinality(Nodes) + 1)
    /\ UNCHANGED <<lists, tree>>

ParentCall(c) ==
    /\ result' = Returned("node", Parent(c))
    /\ UNCHANGED <<configs, lists, tree>>

\* an insertion that also reaches the parent's set
AddIgnoreDependencyUpward(c, dep) ==
    /\ configs' = [n \in Nodes |->
                      IF n = c \/ n = configs[c].parent
                      THEN [configs[n] EXCEPT !.ignoreDependencies = @ \cup {TrimSpace(dep)}]
                      ELSE configs[n]]
    /\ result' = Returned("void", Void)
    /\ UNCHANGED <<lists, tree>>

\* an insertion of the name as given
AddIgnoreDependencyUntrimmed(c, dep) ==
    /\ configs' = [configs EXCEPT ![c].ignoreDependencies = @ \cup {dep}]
    /\ result' = Returned("void", Void)
    /\ UNCHANGED <<lists, tree>>

AddIgnoreDependency(c, dep) ==
    /\ configs' = [configs EXCEPT ![c].ignoreDependencies = @ \cup {TrimSpace(dep)}]
    /\ result' = Returned("void", Void)
    /\ UNCHANGED <<lists, tree>>

IgnoresDependencyCall(c, dep) ==
    /\ result' = Returned("bool", IgnoresDependency(c, dep))
    /\ UNCHANGED <<configs, lists, tree>>

SetGenerationEnabled(c, enabled) ==
    /\ configs' = [configs EXCEPT ![c].generationEnabled = enabled]
    /\ result' = Returned("void", Void)
    /\ UNCHANGED <<lists, tree>>

AddExcludedPattern(c, pattern) ==
    /\ Len(ExcludedPatterns(c)) < MaxPatterns
    /\ lists' = [lists EXCEPT ![configs[c].excludedPatterns] = Append(@, pattern)]
    /\ result' = Returned("void", Void)
    /\ UNCHANGED <<configs, tree>>

ExcludedPatternsCall(c) ==
    /\ result' = Returned("list", configs[c].excludedPatterns)
    /\ UNCHANGED <<configs, lists, tree>>

SetValidateImportStatements(c, validate) ==
    /\ configs' = [configs EXCEPT ![c].validateImportStatements = validate]
    /\ result' = Returned("void", Void)
    /\ UNCHANGED <<lists, tree>>

ValidateImportStatementsCall(c) ==
    /\ result' = Returned("bool", ValidateImportStatements(c))
    /\ UNCHANGED <<configs, lists, tree>>

SetEnvironmentType(c, envType) ==
    /\ configs' = [configs EXCEPT ![c].environmentType = envType]
    /\ result' = Returned("void", Void)
    /\ UNCHANGED <<lists, tree>>

SetLibraryNamingConvention(c, libraryNamingConvention) ==
    /\ configs' = [configs EXCEPT ![c].libraryNamingConvention = libraryNamingConvention]
    /\ result' = Returned("void", Void)
    /\ UNCHANGED <<lists, tree>>

SetTestNamingConvention(c, testNamingConvention) ==
    /\ configs' = [configs EXCEPT ![c].testNamingConvention = testNamingConvention]
    /\ result' = Returned("void", Void)
    /\ UNCHANGED <<lists, tree>>

RenderLibraryNameCall(c, packageName) ==
    /\ result' = Returned("string", RenderLibraryName(c, packageName))
    /\ UNCHANGED <<configs, lists, tree>>

RenderTestNameCall(c, packageName) ==
    /\ result' = Returned("string", RenderTestName(c, packageName))
    /\ UNCHANGED <<configs, lists, tree>>

ParentForPackageCall(pkg) ==
    /\ result' = Returned("node", ParentForPackage(tree, pkg))
    /\ UNCHANGED <<configs, lists, tree>>

\* ------------------------------------------------------------ the walker
\* the directory of a package path, as the walker names its packages
ParentPath(pkg) ==
    LET seps == {i \in 1..Len(pkg) : pkg[i] = "/"}
    IN  IF seps = {} THEN <<>>
        ELSE SubSeq(pkg, 1, (CHOOSE k \in seps : \A m \in seps : m <= k) - 1)

\* the root package: New, registered under the empty path
RegisterRoot(repoRoot) ==
    /\ tree = << >>
    /\ LET n == Cardinality(Nodes) + 1
           l == Cardinality(DOMAIN lists) + 1
       IN  /\ lists' = Append(lists, <<>>)
           /\ configs' = Append(configs, NewConfig(repoRoot, l))
           /\ tree' = (<<>> :> n)
           /\ result' = Returned("node", n)

\* any other package, visited after its directory: ParentForPackage, NewChild
\* on what it returned (a nil receiver panics), registration under pkg
Visit(pkg, bound) ==
    /\ pkg # <<>>
    /\ pkg \notin DOMAIN tree
    /\ ParentPath(pkg) \in DOMAIN tree
    /\ Cardinality(Nodes) < bound
    /\ LET parent == ParentForPackage(tree, pkg)
       IN  IF parent = Nil
           THEN /\ result' = Panicked
                /\ UNCHANGED <<configs, lists, tree>>
           ELSE /\ configs' = Append(configs, ChildConfig(configs, parent))
                /\ tree' = (pkg :> (Cardinality(Nodes) + 1)) @@ tree
                /\ result' = Returned("node", Cardinality(Nodes) + 1)
                /\ UNCHANGED lists

\* ------------------------------------------------------------ SpecIgnore
\* one tree: New builds the root, every other node is derived
NextIgnore ==
    \/ \E r \in RepoRoots : Nodes = {} /\ New(r, MaxNodes) /\ UNCHANGED validateSetOn
    \/ \E c \in Nodes : NewChild(c, MaxNodes) /\ UNCHANGED validateSetOn
    \/ \E c \in Nodes, d \in Deps : AddIgnoreDependency(c, d) /\ UNCHANGED validateSetOn
    \/ \E c \in Nodes, e \in BOOLEAN : SetGenerationEnabled(c, e) /\ UNCHANGED validateSetOn

SpecIgnore == Init /\ [][NextIgnore]_vars

\* ------------------------------------------------------------ SpecExclude
NextExclude ==
    \/ \E r \in RepoRoots : New(r, MaxNodes) /\ UNCHANGED validateSetOn
    \/ \E c \in Nodes : NewChild(c, MaxNodes) /\ UNCHANGED validateSetOn
    \/ \E c \in Nodes, g \in Patterns : AddExcludedPattern(c, g) /\ UNCHANGED validateSetOn
    \/ \E c \in Nodes : ExcludedPatternsCall(c) /\ UNCHANGED validateSetOn

SpecExclude == Init /\ [][NextExclude]_vars

\* ------------------------------------------------------------ SpecScalar
NextScalar ==
    \/ \E r \in RepoRoots : New(r, MaxSettingNodes) /\ UNCHANGED validateSetOn
    \/ \E c \in Nodes : NewChild(c, MaxSettingNodes) /\ UNCHANGED validateSetOn
    \/ \E c \in Nodes, e \in BOOLEAN : SetGenerationEnabled(c, e) /\ UNCHANGED validateSetOn
    \/ \E c \in Nodes, v \in BOOLEAN : SetValidateImportStatements(c, v) /\ UNCHANGED validateSetOn
    \/ \E c \in Nodes, t \in EnvironmentTypes : SetEnvironmentType(c, t) /\ UNCHANGED validateSetOn
    \/ \E c \in Nodes, t \in ScalarLibraryTemplates : SetLibraryNamingConvention(c, t) /\ UNCHANGED validateSetOn
    \/ \E c \in Nodes, t \in ScalarTestTemplates : SetTestNamingConvention(c, t) /\ UNCHANGED validateSetOn

SpecScalar == Init /\ [][NextScalar]_vars

\* ------------------------------------------------------------ SpecValidate
\* validateSetOn records the nodes SetValidateImportStatements was called on
NextValidate ==
    \/ \E r \in RepoRoots : New(r, MaxNodes) /\ UNCHANGED validateSetOn
    \/ \E c \in Nodes : NewChild(c, MaxNodes) /\ UNCHANGED validateSetOn
    \/ \E c \in Nodes : ParentCall(c) /\ UNCHANGED validateSetOn
    \/ \E c \in Nodes : ValidateImportStatementsCall(c) /\ UNCHANGED validateSetOn
    \/ \E c \in Nodes, v \in BOOLEAN :
          /\ SetValidateImportStatements(c, v)
          /\ validateSetOn' = validateSetOn \cup {c}

SpecValidate == Init /\ [][NextValidate]_vars

\* ------------------------------------------------------------ SpecRender
\* one tree: New builds the root, every other node is derived
NextRender ==
    \/ \E r \in RepoRoots : Nodes = {} /\ New(r, MaxSettingNodes) /\ UNCHANGED validateSetOn
    \/ \E c \in Nodes : NewChild(c, MaxSettingNodes) /\ UNCHANGED validateSetOn
    \/ \E c \in Nodes, t \in LibraryTemplates : SetLibraryNamingConvention(c, t) /\ UNCHANGED validateSetOn
    \/ \E c \in Nodes, t \in TestTemplates : SetTestNamingConvention(c, t) /\ UNCHANGED validateSetOn
    \/ \E c \in Nodes, p \in PackageNames : RenderLibraryNameCall(c, p) /\ UNCHANGED validateSetOn
    \/ \E c \in Nodes, p \in PackageNames : RenderTestNameCall(c, p) /\ UNCHANGED validateSetOn

SpecRender == Init /\ [][NextRender]_vars

\* ------------------------------------------------------------ SpecTree
NextTree ==
    \/ \E r \in RepoRoots : RegisterRoot(r) /\ UNCHANGED validateSetOn
    \/ \E p \in Packages : Visit(p, MaxNodes) /\ UNCHANGED validateSetOn
    \/ \E q \in QueryPackages : ParentForPackageCall(q) /\ UNCHANGED validateSetOn
    \/ \E c \in Nodes, d \in Deps : AddIgnoreDependency(c, d) /\ UNCHANGED validateSetOn
    \/ \E c \in Nodes, d \in Deps : IgnoresDependencyCall(c, d) /\ UNCHANGED validateSetOn

SpecTree == Init /\ [][NextTree]_vars

\* ============================================================ properties
\* the parent chain of n, followed for at most k steps
RECURSIVE ChainFrom(_, _, _)
ChainFrom(cfgs, n, k) ==
    IF n = Nil \/ k = 0 THEN {}
    ELSE {n} \cup ChainFrom(cfgs, cfgs[n].parent, k - 1)

AncestorsIn(cfgs, n) == ChainFrom(cfgs, cfgs[n].parent, Cardinality(DOMAIN cfgs))

Ancestors(n) == AncestorsIn(configs, n)

\* where the parent chain of n stands after k steps
RECURSIVE UpFrom(_, _, _)
UpFrom(cfgs, n, k) ==
    IF n = Nil \/ k = 0 THEN n ELSE UpFrom(cfgs, cfgs[n].parent, k - 1)

RootIn(cfgs, n) == CHOOSE r \in {n} \cup AncestorsIn(cfgs, n) : cfgs[r].parent = Nil

RootOf(n) == RootIn(configs, n)

\* the white space that occurs in the names that are tried
WhiteSpace == {" ", "\t", "\n", "\r", "", "", " "}

\* t is s without its surrounding white space
IsTrimOf(t, s) ==
    \E i \in 1..(Len(s) + 1), j \in 0..Len(s) :
        /\ t = SubSeq(s, i, j)
        /\ \A k \in 1..(i - 1) : s[k] \in WhiteSpace
        /\ \A k \in (j + 1)..Len(s) : s[k] \in WhiteSpace
        /\ t # <<>> => t[1] \notin WhiteSpace /\ t[Len(t)] \notin WhiteSpace

\* every dependency name that is tried, paired with its trimmed form
TrimPairs ==
    { <<d, CHOOSE t \in {SubSeq(d, i, j) : i \in 1..(Len(d) + 1), j \in 0..Len(d)} :
               IsTrimOf(t, d)>> : d \in Deps }

Trimmed(d) == (CHOOSE pr \in TrimPairs : pr[1] = d)[2]

SameAfterTrim(d, e) == Trimmed(d) = Trimmed(e)

Fresh == (DOMAIN configs') \ Nodes

\* ------------------------------------------------------------------ C1
\* C1: once AddIgnoreDependency(x) was called on a node A, IgnoresDependency(x)
\* is true on A and on every descendant of A, those derived before the call
\* and those derived after it, and no later step makes an answer false again.
C1_IgnorePropagation ==
    [][ /\ \A a \in Nodes, x \in Deps :
              AddIgnoreDependency(a, x) =>
                  \A b \in Nodes :
                      (b = a \/ a \in Ancestors(b)) => IgnoresDependencyIn(configs', b, x)
        /\ \A b \in Fresh, x \in Deps :
              (\E a \in Nodes : a \in AncestorsIn(configs', b) /\ IgnoresDependency(a, x))
                  => IgnoresDependencyIn(configs', b, x)
        /\ \A b \in Nodes, x \in Deps :
              IgnoresDependency(b, x) => IgnoresDependencyIn(configs', b, x)
      ]_vars

C1_Witness ==
    \E a \in Nodes, b \in Nodes :
        /\ Parent(b) # Nil /\ Parent(Parent(b)) = a
        /\ configs[a].ignoreDependencies = {<<"x">>}
        /\ configs[Parent(b)].ignoreDependencies = {}
        /\ configs[b].ignoreDependencies = {<<"x", " ", "y">>}
        /\ IgnoresDependency(b, <<"", "x", " ">>)

\* ------------------------------------------------------------------ C2
\* C2: AddIgnoreDependency(x) on B changes the local ignore set of B and
\* nothing else, every node that is neither B nor a descendant of B answers
\* IgnoresDependency as before, and an answer is true only when the trimmed
\* name is in the local set of the node or of one of its ancestors.
C2_OneDirectional ==
    [][ /\ \A b \in Nodes, x \in Deps :
              AddIgnoreDependency(b, x) =>
                  /\ DOMAIN configs' = Nodes
                  /\ \A m \in Nodes \ {b} : configs'[m] = configs[m]
                  /\ configs'[b] = [configs[b] EXCEPT
                                       !.ignoreDependencies = configs'[b].ignoreDependencies]
                  /\ \A m \in Nodes, y \in Deps :
                        (m # b /\ b \notin Ancestors(m)) =>
                            IgnoresDependencyIn(configs', m, y) = IgnoresDependency(m, y)
        /\ \A n \in DOMAIN configs', y \in Deps :
              IgnoresDependencyIn(configs', n, y) =>
                  \E m \in {n} \cup AncestorsIn(configs', n) :
                      Trimmed(y) \in configs'[m].ignoreDependencies
      ]_vars

C2_Witness ==
    \E p \in Nodes, b \in Nodes, s \in Nodes :
        /\ Parent(b) = p /\ Parent(s) = p /\ b # s
        /\ configs[b].ignoreDependencies = {<<"x">>}
        /\ ~IgnoresDependency(p, <<"x">>)
        /\ ~IgnoresDependency(s, <<"x">>)
        /\ IgnoresDependency(b, <<"x">>)

\* ------------------------------------------------------------------ C9
\* C9: AddIgnoreDependency(d) makes IgnoresDependency(e) true on the node for
\* every e that equals d after trimming, and adding a name whose trimmed form
\* is already in the node's set changes no ignore set and no answer.
C9_TrimIdempotent ==
    [][ \A n \in Nodes, d \in Deps :
            AddIgnoreDependency(n, d) =>
                /\ \A e \in Deps :
                      SameAfterTrim(d, e) => IgnoresDependencyIn(configs', n, e)
                /\ Trimmed(d) \in configs[n].ignoreDependencies =>
                      /\ configs' = configs
                      /\ \A m \in Nodes, y \in Deps :
                            IgnoresDependencyIn(configs', m, y) = IgnoresDependency(m, y)
      ]_vars

C9_Witness ==
    \E n \in Nodes :
        /\ configs[n].ignoreDependencies = {<<"x", " ", "y">>}
        /\ IgnoresDependency(n, <<"", "x", " ", "y", "\t">>)
        /\ ~IgnoresDependency(n, <<"", "x", " ">>)

\* ------------------------------------------------------------------ C6
\* C6: NewChild on n returns a node whose Parent() is n, New returns a node
\* whose Parent() is absent, no step changes the parent of an existing node,
\* and every parent chain ends at a root within as many steps as there are
\* nodes.
C6_ParentBackReference ==
    [][ /\ \A c \in Nodes :
              NewChild(c, MaxNodes) =>
                  /\ result'.val \in Fresh
                  /\ configs'[result'.val].parent = c
        /\ \A r \in RepoRoots :
              New(r, MaxNodes) =>
                  /\ result'.val \in Fresh
                  /\ configs'[result'.val].parent = Nil
        /\ \A n \in Nodes : n \in DOMAIN configs' /\ configs'[n].parent = configs[n].parent
        /\ \A n \in Fresh : configs'[n].parent \in Nodes \cup {Nil}
        /\ \A n \in DOMAIN configs' :
              UpFrom(configs', n, Cardinality(DOMAIN configs')) = Nil
      ]_vars

C6_Witness ==
    \E n \in Nodes :
        /\ Parent(n) # Nil
        /\ Parent(Parent(n)) # Nil
        /\ Parent(Parent(Parent(n))) = Nil
        /\ result = Returned("node", Parent(n))

\* ------------------------------------------------------------------ C3
\* C3: all nodes under one root hold the same exclusion sequence; a pattern
\* added through any of them is appended at the end of the sequence every node
\* of that root returns, and a node derived later returns the sequence of the
\* node it was derived from.
C3_ExclusionSharing ==
    [][ /\ \A c \in Nodes, g \in Patterns :
              AddExcludedPattern(c, g) =>
                  \A m \in Nodes :
                      lists'[configs'[m].excludedPatterns] =
                          IF RootOf(m) = RootOf(c)
                          THEN Append(ExcludedPatterns(m), g)
                          ELSE ExcludedPatterns(m)
        /\ \A n \in Fresh :
              configs'[n].parent # Nil =>
                  lists'[configs'[n].excludedPatterns] = ExcludedPatterns(configs'[n].parent)
        /\ \A n \in Fresh :
              configs'[n].parent = Nil => lists'[configs'[n].excludedPatterns] = <<>>
        /\ \A n \in DOMAIN configs', m \in DOMAIN configs' :
              RootIn(configs', n) = RootIn(configs', m) => lists'[configs'[n].excludedPatterns] = lists'[configs'[m].excludedPatterns]
      ]_vars

C3_Witness ==
    \E p \in Nodes, a \in Nodes, b \in Nodes :
        /\ Parent(a) = p /\ Parent(b) = p /\ a # b
        /\ ExcludedPatterns(p) = <<"dist/**", "*.d.ts">>
        /\ ExcludedPatterns(a) = <<"dist/**", "*.d.ts">>
        /\ ExcludedPatterns(b) = <<"dist/**", "*.d.ts">>

\* ------------------------------------------------------------------ C4
Scalars(cfg) ==
    <<cfg.generationEnabled, cfg.repoRoot, cfg.environmentType,
      cfg.validateImportStatements, cfg.libraryNamingConvention,
      cfg.testNamingConvention>>

\* C4: a node derived by NewChild starts with the six scalar settings of its
\* parent as they are at that moment, and a scalar setter called on a node
\* changes that one field of that node and no field of any other node.
C4_ScalarsCopied ==
    [][ /\ \A n \in Fresh :
              configs'[n].parent # Nil =>
                  Scalars(configs'[n]) = Scalars(configs[configs'[n].parent])
        /\ Fresh # {} => \A m \in Nodes : configs'[m] = configs[m]
        /\ \A c \in Nodes :
              /\ \A e \in BOOLEAN :
                    SetGenerationEnabled(c, e) =>
                        /\ configs'[c].generationEnabled = e
                        /\ \A m \in Nodes \ {c} : Scalars(configs'[m]) = Scalars(configs[m])
                        /\ \A k \in 2..6 : Scalars(configs'[c])[k] = Scalars(configs[c])[k]
              /\ \A v \in BOOLEAN :
                    SetValidateImportStatements(c, v) =>
                        /\ configs'[c].validateImportStatements = v
                        /\ \A m \in Nodes \ {c} : Scalars(configs'[m]) = Scalars(configs[m])
                        /\ \A k \in {1, 2, 3, 5, 6} :
                              Scalars(configs'[c])[k] = Scalars(configs[c])[k]
              /\ \A t \in EnvironmentTypes :
                    SetEnvironmentType(c, t) =>
                        /\ configs'[c].environmentType = t
                        /\ \A m \in Nodes \ {c} : Scalars(configs'[m]) = Scalars(configs[m])
                        /\ \A k \in {1, 2, 4, 5, 6} :
                              Scalars(configs'[c])[k] = Scalars(configs[c])[k]
              /\ \A t \in ScalarLibraryTemplates :
                    SetLibraryNamingConvention(c, t) =>
                        /\ configs'[c].libraryNamingConvention = t
                        /\ \A m \in Nodes \ {c} : Scalars(configs'[m]) = Scalars(configs[m])
                        /\ \A k \in {1, 2, 3, 4, 6} :
                              Scalars(configs'[c])[k] = Scalars(configs[c])[k]
              /\ \A t \in ScalarTestTemplates :
                    SetTestNamingConvention(c, t) =>
                        /\ configs'[c].testNamingConvention = t
                        /\ \A m \in Nodes \ {c} : Scalars(configs'[m]) = Scalars(configs[m])
                        /\ \A k \in 1..5 : Scalars(configs'[c])[k] = Scalars(configs[c])[k]
      ]_vars

C4_Witness ==
    \E p \in Nodes, c \in Nodes :
        /\ Parent(c) = p
        /\ configs[c].environmentType = EnvironmentNode
        /\ configs[p].environmentType = EnvironmentNode
        /\ configs[c].libraryNamingConvention = <<"l", "i", "b">>
        /\ configs[p].libraryNamingConvention = <<"l", "i", "b">>
        /\ ~configs[p].generationEnabled
        /\ configs[c].generationEnabled
        /\ configs[p].validateImportStatements
        /\ ~configs[c].validateImportStatements

\* ------------------------------------------------------------------ C5
\* C5: ParentForPackage of the root package path (the empty string) is absent
\* in every state of the mapping.
C5_RootHasNoParent == ParentForPackage(tree, <<>>) = Nil

\* ------------------------------------------------------------------ C7
\* C7: a call of SetValidateImportStatements on a node it was already called
\* on signals an error.
C7_DuplicateSignalsError ==
    [][ \A c \in validateSetOn, v \in BOOLEAN :
            SetValidateImportStatements(c, v) => result'.err ]_vars

\* ------------------------------------------------------------------ C8
\* where the placeholder token occurs in a template
Occurrences(t) ==
    {i \in 1..(Len(t) - Len(packageNameNamingConventionSubstitution) + 1) :
        SubSeq(t, i, i + Len(packageNameNamingConventionSubstitution) - 1)
            = packageNameNamingConventionSubstitution}

\* the occurrences that are replaced: each one that no replaced occurrence
\* to its left reaches into
Replaced(t) ==
    CHOOSE S \in SUBSET Occurrences(t) :
        \A i \in Occurrences(t) :
            i \in S <=>
                ~\E j \in S :
                    j < i /\ i - j < Len(packageNameNamingConventionSubstitution)

\* t from position i on, with p in the place of the occurrences in S
RECURSIVE Substituted(_, _, _, _)
Substituted(t, S, p, i) ==
    IF i > Len(t) THEN <<>>
    ELSE IF i \in S
         THEN p \o Substituted(t, S, p,
                               i + Len(packageNameNamingConventionSubstitution))
         ELSE <<t[i]>> \o Substituted(t, S, p, i + 1)

Expected(t, p) == Substituted(t, Replaced(t), p, 1)

\* C8: a rendering is the node's template with the occurrences of the
\* placeholder token replaced by the package name and every other character
\* kept; a template without the token is returned as it is; a node created by
\* New renders p and p followed by "_test", and so does every node derived
\* from it until a template is set; a rendering call changes no node.
C8_Rendering ==
    [][ /\ \A n \in DOMAIN configs', p \in PackageNames :
              /\ RenderLibraryNameIn(configs', n, p)
                    = Expected(configs'[n].libraryNamingConvention, p)
              /\ RenderTestNameIn(configs', n, p)
                    = Expected(configs'[n].testNamingConvention, p)
              /\ Occurrences(configs'[n].libraryNamingConvention) = {} =>
                    RenderLibraryNameIn(configs', n, p) = configs'[n].libraryNamingConvention
              /\ Occurrences(configs'[n].testNamingConvention) = {} =>
                    RenderTestNameIn(configs', n, p) = configs'[n].testNamingConvention
        /\ \A n \in Fresh, p \in PackageNames :
              IF configs'[n].parent = Nil
              THEN /\ RenderLibraryNameIn(configs', n, p) = p
                   /\ RenderTestNameIn(configs', n, p) = p \o <<"_", "t", "e", "s", "t">>
              ELSE /\ RenderLibraryNameIn(configs', n, p)
                         = RenderLibraryName(configs'[n].parent, p)
                   /\ RenderTestNameIn(configs', n, p)
                         = RenderTestName(configs'[n].parent, p)
        /\ \A n \in Nodes, p \in PackageNames :
              /\ (~\E t \in LibraryTemplates : SetLibraryNamingConvention(n, t)) =>
                    RenderLibraryNameIn(configs', n, p) = RenderLibraryName(n, p)
              /\ (~\E t \in TestTemplates : SetTestNamingConvention(n, t)) =>
                    RenderTestNameIn(configs', n, p) = RenderTestName(n, p)
        /\ \A n \in Nodes, p \in PackageNames :
              (RenderLibraryNameCall(n, p) \/ RenderTestNameCall(n, p)) =>
                  /\ configs' = configs /\ lists' = lists /\ tree' = tree
                  /\ result'.val \in {RenderLibraryName(n, p), RenderTestName(n, p)}
      ]_vars

C8_Witness ==
    \E r \in Nodes, c \in Nodes :
        /\ Parent(c) = r
        /\ configs[r].libraryNamingConvention = packageNameNamingConventionSubstitution
        /\ configs[c].libraryNamingConvention = <<"l", "i", "b">>
        /\ configs[c].testNamingConvention =
              packageNameNamingConventionSubstitution \o <<"_">>
                  \o packageNameNamingConventionSubstitution
        /\ RenderTestName(c, <<"f", "o", "o">>) = <<"f", "o", "o", "_", "f", "o", "o">>
        /\ result = Returned("string", <<"f", "o", "o", "_", "f", "o", "o">>)

\* ------------------------------------------------------------------ C10
\* C10: with the root registered under "" and every package visited after its
\* directory, no visit panics, ParentForPackage of a non-root path is the node
\* registered under the directory of the path when there is one and absent
\* when there is none, for a registered path it is the Parent() of the node
\* registered under the path, and a ParentForPackage call changes neither the
\* mapping nor a node.
C10_TreeAgreesWithParents ==
    [][ /\ ~result'.err
        /\ \A p \in DOMAIN tree' :
              p # <<>> =>
                  /\ ParentForPackage(tree', p) # Nil
                  /\ ParentForPackage(tree', p) = configs'[tree'[p]].parent
        /\ \A q \in QueryPackages \ {<<>>} :
              ParentForPackage(tree', q) =
                  IF ParentPath(q) \in DOMAIN tree' THEN tree'[ParentPath(q)] ELSE Nil
        /\ \A q \in QueryPackages :
              ParentForPackageCall(q) =>
                  /\ tree' = tree /\ configs' = configs /\ lists' = lists
                  /\ result'.val = ParentForPackage(tree, q)
      ]_vars

C10_Witness ==
    /\ <<"a", "/", "b">> \in DOMAIN tree
    /\ ParentForPackage(tree, <<"a", "/", "b">>) = tree[<<"a">>]
    /\ Parent(tree[<<"a", "/", "b">>]) = tree[<<"a">>]
    /\ Parent(tree[<<"a">>]) = tree[<<>>]
    /\ ParentForPackage(tree, <<"b", "/", "c">>) = Nil
    /\ ParentForPackage(tree, <<"a", "/", "b", "/", "c">>) = tree[<<"a", "/", "b">>]
    /\ result = Returned("node", tree[<<"a">>])

====
